---- MODULE Spec2Model ----
(***************************************************************************)
(* Model of the positional-audio ECS glue of Thrive:                       *)
(*   src/src/sound/sound_source_system.h  (Sound, SoundSourceComponent,    *)
(*   SoundSourceSystem and its Implementation).                            *)
(*                                                                         *)
(* Strings (sound names, file names) are abstracted to small naturals, 0   *)
(* being the empty string.  Floats are abstracted to the integers they     *)
(* hold.  Native OgreOggISound objects and heap-allocated Sound objects    *)
(* are identified by the order of their creation; 0 is the null pointer.   *)
(* Unordered containers are iterated in ascending key order.               *)
(***************************************************************************)
EXTENDS Integers, Sequences, FiniteSets, TLC

\* ------------------------------------------------------------------ bounds
MaxEntities == 1
MaxNames == 2
MaxFiles == 1
MaxSound == 2
MaxNative == 2
MaxList == 2
MaxCompounds == 2
MaxAmount == 2
MaxBandwidth == 2
MaxCapacity == 3
MaxOperations == 3

Entities == 1..MaxEntities
Names == 1..MaxNames
Files == 1..MaxFiles
EmptyString == 0

\* ------------------------------------------------- Sound::PlayState (enum)
Play == 0
Pause == 1
Stop == 2
PlayStates == {Play, Pause, Stop}

\* ------------------------------------- defaults of Sound::Properties fields
DefaultVolume == 1
DefaultMaxDistance == -1
DefaultRolloffFactor == -1
DefaultReferenceDistance == 100
DefaultPriority == 0

\* values the scripts write into the properties
VolumeValues == {DefaultVolume, 0}
MaxDistanceValues == {DefaultMaxDistance, 50}
RolloffFactorValues == {DefaultRolloffFactor, 2}
ReferenceDistanceValues == {DefaultReferenceDistance, 10}
PriorityValues == {DefaultPriority, 255}

VARIABLES
    soundCount,         \* number of Sound objects constructed so far
    components,         \* EntityId -> SoundSourceComponent
    sceneNodes,         \* EntityId -> OgreSceneNodeComponent::m_sceneNode != null
    entities,           \* EntityFilter: the entities in the filter
    addedEntities,      \* EntityFilter: added since the last clearChanges()
    removedEntities,    \* EntityFilter: removed since the last clearChanges()
    active,             \* the system is activated
    impl_m_sounds,      \* Implementation::m_sounds: EntityId -> name -> native
    natives,            \* the audio manager's objects, in creation order
    calls,              \* native calls issued by the last operation
    crashed,            \* the process died dereferencing an invalid pointer
    lastOp,             \* the last operation, its arguments and its result
    subject,            \* round trip: the object that is saved
    restored,           \* round trip: the object loaded from the saved form
    organelle           \* the StorageOrganelle of the script example

vars == <<soundCount, components, sceneNodes, entities,
          addedEntities, removedEntities, active, impl_m_sounds, natives,
          calls, crashed, lastOp, subject, restored, organelle>>

\* ------------------------------------------------------------- containers
EmptyMap == [k \in {} |-> 0]

Emplace(map, key, value) ==
    IF key \in DOMAIN map THEN map ELSE (key :> value) @@ map

Erase(map, key) == [k \in DOMAIN map \ {key} |-> map[k]]

Min(S) == CHOOSE x \in S : \A y \in S : x <= y

RECURSIVE Ascending(_)
Ascending(S) ==
    IF S = {} THEN <<>> ELSE <<Min(S)>> \o Ascending(S \ {Min(S)})

B2I(b) == IF b THEN 1 ELSE 0

\* --------------------------------------------------------- StorageContainer
ToInt16(x) == LET m == x % 65536 IN IF m >= 32768 THEN m - 65536 ELSE m

ToUInt8(x) == x % 256

StorageSet(storage, key, type, value) ==
    (key :> [type |-> type, value |-> value]) @@ storage

StorageGet(storage, key, type, default) ==
    IF key \in DOMAIN storage /\ storage[key].type = type
    THEN storage[key].value
    ELSE default

\* -------------------------------------------------------------------- Sound
Properties ==
    [playState |-> Stop, loop |-> FALSE, volume |-> DefaultVolume,
     maxDistance |-> DefaultMaxDistance,
     rolloffFactor |-> DefaultRolloffFactor,
     referenceDistance |-> DefaultReferenceDistance,
     priority |-> DefaultPriority]

Sound(id, name, filename, hasChanges) ==
    [id |-> id, m_name |-> name, m_filename |-> filename,
     m_properties |-> Properties, m_hasChanges |-> hasChanges, m_sound |-> 0]

\* SoundStorage with the play state saved as a 32 bit integer
SoundStorageInt32(s) ==
    LET s1 == StorageSet(EmptyMap, "filename", "string", s.m_filename)
        s2 == StorageSet(s1, "name", "string", s.m_name)
        s3 == StorageSet(s2, "playState", "int32", s.m_properties.playState)
        s4 == StorageSet(s3, "loop", "bool", s.m_properties.loop)
        s5 == StorageSet(s4, "volume", "float", s.m_properties.volume)
        s6 == StorageSet(s5, "maxDistance", "float",
                         s.m_properties.maxDistance)
        s7 == StorageSet(s6, "rolloffFactor", "float",
                         s.m_properties.rolloffFactor)
        s8 == StorageSet(s7, "referenceDistance", "float",
                         s.m_properties.referenceDistance)
    IN  StorageSet(s8, "priority", "uint8", ToUInt8(s.m_properties.priority))

SoundStorage(s) ==
    LET s1 == StorageSet(EmptyMap, "filename", "string", s.m_filename)
        s2 == StorageSet(s1, "name", "string", s.m_name)
        s3 == StorageSet(s2, "playState", "int16",
                         ToInt16(s.m_properties.playState))
        s4 == StorageSet(s3, "loop", "bool", s.m_properties.loop)
        s5 == StorageSet(s4, "volume", "float", s.m_properties.volume)
        s6 == StorageSet(s5, "maxDistance", "float",
                         s.m_properties.maxDistance)
        s7 == StorageSet(s6, "rolloffFactor", "float",
                         s.m_properties.rolloffFactor)
        s8 == StorageSet(s7, "referenceDistance", "float",
                         s.m_properties.referenceDistance)
    IN  StorageSet(s8, "priority", "uint8", ToUInt8(s.m_properties.priority))

SoundLoad(s, storage) ==
    [s EXCEPT
       !.m_filename = StorageGet(storage, "filename", "string", EmptyString),
       !.m_name = StorageGet(storage, "name", "string", EmptyString),
       !.m_properties =
          [playState |-> StorageGet(storage, "playState", "int16", Stop),
           loop |-> StorageGet(storage, "loop", "bool", FALSE),
           volume |-> StorageGet(storage, "volume", "float", 0),
           maxDistance |->
               StorageGet(storage, "maxDistance", "float",
                          DefaultMaxDistance),
           rolloffFactor |->
               StorageGet(storage, "rolloffFactor", "float",
                          DefaultRolloffFactor),
           referenceDistance |->
               StorageGet(storage, "referenceDistance", "float",
                          DefaultReferenceDistance),
           priority |-> StorageGet(storage, "priority", "uint8", 0)]]

\* ----------------------------------------------------- SoundSourceComponent
NewComponent ==
    [m_relativeToListener |-> TRUE, m_addedSounds |-> <<>>,
     m_removedSounds |-> <<>>, m_sounds |-> EmptyMap]

\* Component::storage() of the base class: nothing this model reads
ComponentBaseStorage == EmptyMap

\* addSound storing the sound under its file name
addSoundByFilename(c, id, name, filename, hasChanges) ==
    LET sound == Sound(id, name, filename, hasChanges)
    IN  [c EXCEPT !.m_sounds = Emplace(@, filename, sound),
                  !.m_addedSounds = Append(@, id)]

addSound(c, id, name, filename, hasChanges) ==
    LET sound == Sound(id, name, filename, hasChanges)
    IN  [c EXCEPT !.m_sounds = Emplace(@, name, sound),
                  !.m_addedSounds = Append(@, id)]

removeSound(c, name) ==
    IF name \in DOMAIN c.m_sounds
    THEN [c EXCEPT !.m_removedSounds = Append(@, c.m_sounds[name].id),
                   !.m_sounds = Erase(@, name)]
    ELSE c

\* the local list `sounds` is filled and then dropped: it never reaches
\* the returned container
ComponentStorage(c) ==
    LET keys == Ascending(DOMAIN c.m_sounds)
        sounds == [i \in DOMAIN keys |-> SoundStorage(c.m_sounds[keys[i]])]
    IN  StorageSet(ComponentBaseStorage, "relativeToListener", "bool",
                   c.m_relativeToListener)

RECURSIVE LoadSounds(_, _, _, _, _)
LoadSounds(m_sounds, sounds, i, firstId, hasChanges) ==
    IF i > Len(sounds) THEN m_sounds
    ELSE LET sound == SoundLoad(
                 Sound(firstId + i - 1, EmptyString, EmptyString, hasChanges),
                 sounds[i])
         IN  LoadSounds(Emplace(m_sounds, sound.m_name, sound),
                        sounds, i + 1, firstId, hasChanges)

ComponentLoad(c, storage, firstId, hasChanges) ==
    LET sounds == StorageGet(storage, "sounds", "list", <<>>)
    IN  [c EXCEPT
           !.m_relativeToListener =
               StorageGet(storage, "relativeToListener", "bool", FALSE),
           !.m_sounds = LoadSounds(@, sounds, 1, firstId, hasChanges)]

\* the Sound object with this address is owned by a component
SoundAlive(id) ==
    \E e \in Entities : \E k \in DOMAIN components[e].m_sounds :
        components[e].m_sounds[k].id = id

\* ------------------------------------------------------------ saved inputs
SavedSounds ==
    { SoundStorage([Sound(0, n, f, FALSE)
                       EXCEPT !.m_properties.playState = p]) :
        n \in Names, f \in Files, p \in {Play} }

SavedLists ==
    UNION { [1..k -> SavedSounds] : k \in 0..MaxList }

SavedComponents ==
    { StorageSet(StorageSet(EmptyMap, "relativeToListener", "bool", r),
                 "sounds", "list", l) :
        r \in BOOLEAN, l \in SavedLists }

SoundInputs ==
    { [Sound(0, n, f, FALSE) EXCEPT
          !.m_properties =
             [playState |-> p, loop |-> l, volume |-> v, maxDistance |-> d,
              rolloffFactor |-> r, referenceDistance |-> rd,
              priority |-> pr]] :
        n \in Names \cup {EmptyString}, f \in Files, p \in PlayStates,
        l \in BOOLEAN, v \in VolumeValues, d \in MaxDistanceValues,
        r \in RolloffFactorValues, rd \in ReferenceDistanceValues,
        pr \in PriorityValues }

\* ------------------------------------------------------------------- Init
NoOp == [op |-> "none", entity |-> 0, name |-> 0, arg |-> 0, ret |-> 0]

Op(op, e, name, arg, ret) ==
    [op |-> op, entity |-> e, name |-> name, arg |-> arg, ret |-> ret]

InitSystem ==
    /\ soundCount = 0
    /\ components = [e \in Entities |-> NewComponent]
    /\ sceneNodes = [e \in Entities |-> FALSE]
    /\ entities = {}
    /\ addedEntities = {}
    /\ removedEntities = {}
    /\ active = FALSE
    /\ impl_m_sounds = [e \in Entities |-> EmptyMap]
    /\ natives = <<>>
    /\ calls = <<>>
    /\ crashed = FALSE
    /\ lastOp = NoOp
    /\ restored = 0

Init == InitSystem /\ subject = 0 /\ organelle = 0

InitSound == InitSystem /\ subject \in SoundInputs /\ organelle = 0

\* ------------------------------------------------- component operations
AddSound(e, name, filename, hasChanges) ==
    /\ ~crashed
    /\ soundCount < MaxSound
    /\ soundCount' = soundCount + 1
    /\ components' = [components EXCEPT
          ![e] = addSound(@, soundCount + 1, name, filename, hasChanges)]
    /\ lastOp' = Op("addSound", e, name, filename, soundCount + 1)
    /\ calls' = <<>>
    /\ UNCHANGED <<sceneNodes, entities, addedEntities,
                   removedEntities, active, impl_m_sounds, natives, crashed>>
    /\ subject' = 0 /\ restored' = 0 /\ UNCHANGED organelle

RemoveSound(e, name) ==
    /\ ~crashed
    /\ components' = [components EXCEPT ![e] = removeSound(@, name)]
    /\ lastOp' = Op("removeSound", e, name, 0,
                     IF name \in DOMAIN components[e].m_sounds
                     THEN components[e].m_sounds[name].id ELSE 0)
    /\ calls' = <<>>
    /\ UNCHANGED <<soundCount, sceneNodes, entities,
                   addedEntities, removedEntities, active, impl_m_sounds,
                   natives, crashed>>
    /\ subject' = 0 /\ restored' = 0 /\ UNCHANGED organelle

Load(e, storage, hasChanges) ==
    LET n == Len(StorageGet(storage, "sounds", "list", <<>>))
    IN  /\ ~crashed
        /\ soundCount + n <= MaxSound
        /\ soundCount' = soundCount + n
        /\ components' = [components EXCEPT
              ![e] = ComponentLoad(@, storage, soundCount + 1, hasChanges)]
        /\ lastOp' = Op("load", e, 0, 0, 0)
        /\ calls' = <<>>
        /\ UNCHANGED <<sceneNodes, entities, addedEntities,
                       removedEntities, active, impl_m_sounds, natives,
                       crashed>>
        /\ subject' = 0 /\ restored' = 0 /\ UNCHANGED organelle

\* c.storage() loaded into a fresh component
SaveLoad(e, hasChanges) ==
    LET storage == ComponentStorage(components[e])
        n == Len(StorageGet(storage, "sounds", "list", <<>>))
    IN  /\ ~crashed
        /\ soundCount + n <= MaxSound
        /\ soundCount' = soundCount + n
        /\ subject' = components[e]
        /\ restored' = ComponentLoad(NewComponent, storage, soundCount + 1,
                                     hasChanges)
        /\ lastOp' = Op("saveLoad", e, 0, 0, 0)
        /\ calls' = <<>>
        /\ UNCHANGED <<components, sceneNodes, entities,
                       addedEntities, removedEntities, active, impl_m_sounds,
                       natives, crashed, organelle>>

\* s.storage() loaded into a default-constructed Sound
SoundSaveLoad(hasChanges) ==
    /\ lastOp.op = "none"
    /\ restored' = SoundLoad(
          Sound(0, EmptyString, EmptyString, hasChanges),
          SoundStorage(subject))
    /\ lastOp' = Op("soundSaveLoad", 0, 0, 0, 0)
    /\ UNCHANGED <<soundCount, components, sceneNodes,
                   entities, addedEntities, removedEntities, active,
                   impl_m_sounds, natives, calls, crashed, subject,
                   organelle>>

NextSound == \E hasChanges \in BOOLEAN : SoundSaveLoad(hasChanges)

SpecSound == InitSound /\ [][NextSound]_vars

\* ------------------------------------------------------ StorageOrganelle
\* Lua numbers are doubles; they are modelled as exact rationals <<n, d>>
\* with d > 0 in lowest terms, so that "/" is a true division.
RECURSIVE GCD(_, _)
GCD(a, b) == IF b = 0 THEN a ELSE GCD(b, a % b)

Abs(x) == IF x < 0 THEN -x ELSE x

Rat(n, d) ==
    LET g == GCD(Abs(n), Abs(d))
        sign == IF d < 0 THEN -1 ELSE 1
    IN  <<sign * (n \div g), sign * (d \div g)>>

Num(x) == Rat(x, 1)

RatAdd(x, y) == Rat(x[1] * y[2] + y[1] * x[2], x[2] * y[2])

RatSub(x, y) == Rat(x[1] * y[2] - y[1] * x[2], x[2] * y[2])

RatMul(x, y) == Rat(x[1] * y[1], x[2] * y[2])

RatDiv(x, y) == Rat(x[1] * y[2], x[2] * y[1])

RatLess(x, y) == x[1] * y[2] < y[1] * x[2]

\* math.min over two and three arguments
RatMin(x, y) == IF RatLess(y, x) THEN y ELSE x

RatMin3(x, y, z) == RatMin(RatMin(x, y), z)

CompoundIds == 1..MaxCompounds

\* CompoundRegistry.getCompoundSize: a positive size per compound, below
\* one for compound 1 and above one for compound 2
getCompoundSize(compoundId) ==
    CASE compoundId = 1 -> Rat(1, 2)
      [] compoundId = 2 -> Num(2)
      [] OTHER -> Num(compoundId - 2)

Amounts == {Num(a) : a \in 0..MaxAmount}

Bandwidths == {Num(b) : b \in -1..MaxBandwidth}

Capacities == {Num(c) : c \in -1..MaxCapacity}

\* StorageOrganelle:__init; compounds = {} is the map with no key
StorageOrganelle(bandwidth, capacity) ==
    [bandwidth |-> bandwidth, capacity |-> capacity, compounds |-> EmptyMap,
     stored |-> Num(0), parentIndex |-> 0, operations |-> 0]

\* the organelle after the call, and the value returned
storeCompoundUnlimited(self, compoundId, amount) ==
    LET canFit == RatDiv(RatSub(self.capacity, self.stored),
                         getCompoundSize(compoundId))
        amountToStore == RatMin(amount, canFit)
    IN  [self |-> [self EXCEPT
            !.compounds =
                IF compoundId \notin DOMAIN self.compounds
                THEN Emplace(self.compounds, compoundId, amountToStore)
                ELSE [self.compounds EXCEPT
                        ![compoundId] = RatAdd(@, amountToStore)],
            !.stored = RatAdd(self.stored,
                RatMul(getCompoundSize(compoundId), amountToStore))],
         ret |-> RatSub(amount, amountToStore)]

storeCompound(self, compoundId, amount) ==
    LET canFit == RatDiv(RatSub(self.capacity, self.stored),
                         getCompoundSize(compoundId))
        amountToStore == RatMin3(amount, self.bandwidth, canFit)
    IN  [self |-> [self EXCEPT
            !.compounds =
                IF compoundId \notin DOMAIN self.compounds
                THEN Emplace(self.compounds, compoundId, amountToStore)
                ELSE [self.compounds EXCEPT
                        ![compoundId] = RatAdd(@, amountToStore)],
            !.stored = RatAdd(self.stored,
                RatMul(getCompoundSize(compoundId), amountToStore))],
         ret |-> RatSub(amount, amountToStore)]

ejectCompoundUnchecked(self, compoundId, amount) ==
    IF compoundId \in DOMAIN self.compounds
    THEN LET drainAmount == RatMin(amount, self.bandwidth)
         IN  [self |-> [self EXCEPT
                 !.compounds[compoundId] = RatSub(@, drainAmount),
                 !.stored = RatSub(self.stored, drainAmount)],
              ret |-> drainAmount]
    ELSE [self |-> self, ret |-> Num(0)]

ejectCompound(self, compoundId, amount) ==
    IF compoundId \in DOMAIN self.compounds
    THEN LET drainAmount == RatMin3(amount, self.compounds[compoundId],
                                    self.bandwidth)
         IN  [self |-> [self EXCEPT
                 !.compounds[compoundId] = RatSub(@, drainAmount),
                 !.stored = RatSub(self.stored, drainAmount)],
              ret |-> drainAmount]
    ELSE [self |-> self, ret |-> Num(0)]

InitOrganelle ==
    /\ InitSystem
    /\ subject = 0
    /\ organelle \in {StorageOrganelle(b, c) :
                        b \in Bandwidths, c \in Capacities}

organelleVars == <<soundCount, components, sceneNodes, entities,
                   addedEntities, removedEntities, active, impl_m_sounds,
                   natives, calls, crashed, subject, restored>>

StoreCompound(compoundId, amount) ==
    LET r == storeCompound(organelle, compoundId, amount)
    IN  /\ organelle.operations < MaxOperations
        /\ organelle' = [r.self EXCEPT !.operations = @ + 1]
        /\ lastOp' = Op("storeCompound", 0, compoundId, amount, r.ret)
        /\ UNCHANGED organelleVars

EjectCompound(compoundId, amount) ==
    LET r == ejectCompound(organelle, compoundId, amount)
    IN  /\ organelle.operations < MaxOperations
        /\ organelle' = [r.self EXCEPT !.operations = @ + 1]
        /\ lastOp' = Op("ejectCompound", 0, compoundId, amount, r.ret)
        /\ UNCHANGED organelleVars

NextOrganelle ==
    \/ \E compoundId \in CompoundIds, amount \in Amounts :
          StoreCompound(compoundId, amount)
    \/ \E compoundId \in CompoundIds, amount \in Amounts :
          EjectCompound(compoundId, amount)

SpecOrganelle == InitOrganelle /\ [][NextOrganelle]_vars

\* ------------------------------------------- SoundSourceSystem::Implementation
\* The operators below thread the record st through the loops of the code:
\*   components, impl_m_sounds, natives, calls   the state being changed
\*   attempts   number of createSound requests made by this operation
\*   crashed    an invalid pointer was dereferenced and the process died
\* `failing` is the set of createSound requests (by number) for which the
\* audio manager returns no object; `ub` is what the build does when an
\* invalid native pointer is used: "crash" or "proceed".

DeadNative ==
    [alive |-> FALSE, name |-> 0, filename |-> 0, loop |-> FALSE, node |-> 0]

Call(op, obj, arg, entityId, name) ==
    [op |-> op, obj |-> obj, arg |-> arg, entity |-> entityId, name |-> name]

Start ==
    [components |-> components, impl_m_sounds |-> impl_m_sounds,
     natives |-> natives, calls |-> <<>>, attempts |-> 0, crashed |-> FALSE]

ValidNative(st, sound) ==
    sound # 0 /\ st.natives[sound].alive

Implementation_removeSound(st, sound, entityId, name, ub) ==
    IF st.crashed \/ sound = 0 THEN st
    ELSE LET detach == Call("detachObject", sound, <<>>, entityId, name)
             destroy == Call("destroySound", sound, <<>>, entityId, name)
         IN  IF ValidNative(st, sound)
             THEN [st EXCEPT !.natives[sound] = DeadNative,
                             !.calls = @ \o <<detach, destroy>>]
             ELSE IF ub = "crash"
             THEN [st EXCEPT !.calls = Append(@, detach), !.crashed = TRUE]
             ELSE [st EXCEPT !.calls = @ \o <<detach, destroy>>]

RECURSIVE removeSoundsIn(_, _, _, _, _)
removeSoundsIn(st, entityId, keys, i, ub) ==
    IF i > Len(keys) THEN st
    ELSE removeSoundsIn(
             Implementation_removeSound(
                 st, st.impl_m_sounds[entityId][keys[i]], entityId, keys[i],
                 ub),
             entityId, keys, i + 1, ub)

removeSoundsForEntity(st, entityId, ub) ==
    removeSoundsIn(st, entityId, Ascending(DOMAIN st.impl_m_sounds[entityId]),
                   1, ub)

RECURSIVE removeSoundsForEntities(_, _, _, _)
removeSoundsForEntities(st, ids, i, ub) ==
    IF i > Len(ids) THEN st
    ELSE removeSoundsForEntities(removeSoundsForEntity(st, ids[i], ub),
                                 ids, i + 1, ub)

removeAllSounds(st, ub) ==
    LET st1 == removeSoundsForEntities(st, Ascending(entities), 1, ub)
    IN  IF st1.crashed THEN st1
        ELSE [st1 EXCEPT !.impl_m_sounds = [e \in Entities |-> EmptyMap]]

restoreSound(st, entityId, key, failing) ==
    LET sound == st.components[entityId].m_sounds[key]
        request == st.attempts + 1
        created == request \notin failing /\ Len(st.natives) < MaxNative
        ogreSound == IF created THEN Len(st.natives) + 1 ELSE 0
        create == Call("createSound", ogreSound,
                       <<sound.m_name, sound.m_filename,
                         B2I(sound.m_properties.loop)>>,
                       entityId, sound.m_name)
        attach == Call("attachObject", ogreSound, <<>>, entityId,
                       sound.m_name)
        native == [alive |-> TRUE, name |-> sound.m_name,
                   filename |-> sound.m_filename,
                   loop |-> sound.m_properties.loop, node |-> entityId]
    IN  IF st.crashed \/ ~sceneNodes[entityId] THEN st
        ELSE IF created
        THEN [st EXCEPT
                !.attempts = request,
                !.natives = Append(@, native),
                !.components[entityId].m_sounds[key].m_sound = ogreSound,
                !.impl_m_sounds[entityId] =
                    Emplace(@, sound.m_name, ogreSound),
                !.calls = @ \o <<create, attach>>]
        ELSE [st EXCEPT !.attempts = request, !.calls = Append(@, create)]

RECURSIVE restoreSoundsIn(_, _, _, _, _)
restoreSoundsIn(st, entityId, keys, i, failing) ==
    IF i > Len(keys) THEN st
    ELSE restoreSoundsIn(restoreSound(st, entityId, keys[i], failing),
                         entityId, keys, i + 1, failing)

RECURSIVE restoreSoundsForEntities(_, _, _, _)
restoreSoundsForEntities(st, ids, i, failing) ==
    IF i > Len(ids) THEN st
    ELSE restoreSoundsForEntities(
             restoreSoundsIn(
                 st, ids[i],
                 Ascending(DOMAIN st.components[ids[i]].m_sounds), 1,
                 failing),
             ids, i + 1, failing)

restoreAllSounds(st, failing) ==
    restoreSoundsForEntities(st, Ascending(entities), 1, failing)

\* the native calls of lines 674-692 on ogreSound
PropertyCalls(ogreSound, properties, entityId, name) ==
    << Call("setVolume", ogreSound, <<properties.volume>>, entityId, name),
       Call("setMaxDistance", ogreSound, <<properties.maxDistance>>,
            entityId, name),
       Call("setRolloffFactor", ogreSound, <<properties.rolloffFactor>>,
            entityId, name),
       Call("setReferenceDistance", ogreSound,
            <<properties.referenceDistance>>, entityId, name),
       Call("setPriority", ogreSound, <<properties.priority>>, entityId,
            name) >>
    \o (IF properties.playState = Play
        THEN <<Call("play", ogreSound, <<>>, entityId, name)>>
        ELSE IF properties.playState = Pause
        THEN <<Call("pause", ogreSound, <<>>, entityId, name)>>
        ELSE IF properties.playState = Stop
        THEN <<Call("stop", ogreSound, <<>>, entityId, name)>>
        ELSE <<>>)

\* body of the loop over the sounds of one entity, lines 662-695
syncSoundKeepingMark(st, entityId, key, failing, ub) ==
    IF st.crashed THEN st
    ELSE
    LET st1 == IF st.components[entityId].m_sounds[key].m_sound = 0
               THEN restoreSound(st, entityId, key, failing)
               ELSE st
        sound == st1.components[entityId].m_sounds[key]
        ogreSound == sound.m_sound
        pushed == PropertyCalls(ogreSound, sound.m_properties, entityId,
                                sound.m_name)
    IN  IF ~sound.m_hasChanges THEN st1
        ELSE IF ValidNative(st1, ogreSound) \/ ub = "proceed"
        THEN [st1 EXCEPT !.calls = @ \o pushed]
        ELSE [st1 EXCEPT !.calls = Append(@, pushed[1]), !.crashed = TRUE]

syncSound(st, entityId, key, failing, ub) ==
    IF st.crashed THEN st
    ELSE
    LET st1 == IF st.components[entityId].m_sounds[key].m_sound = 0
               THEN restoreSound(st, entityId, key, failing)
               ELSE st
        sound == st1.components[entityId].m_sounds[key]
        ogreSound == sound.m_sound
        pushed == PropertyCalls(ogreSound, sound.m_properties, entityId,
                                sound.m_name)
    IN  IF ~sound.m_hasChanges THEN st1
        ELSE IF ValidNative(st1, ogreSound) \/ ub = "proceed"
        THEN [st1 EXCEPT
                !.calls = @ \o pushed,
                !.components[entityId].m_sounds[key].m_hasChanges = FALSE]
        ELSE [st1 EXCEPT !.calls = Append(@, pushed[1]), !.crashed = TRUE]

RECURSIVE syncSoundsIn(_, _, _, _, _, _)
syncSoundsIn(st, entityId, keys, i, failing, ub) ==
    IF i > Len(keys) THEN st
    ELSE syncSoundsIn(syncSound(st, entityId, keys[i], failing, ub),
                      entityId, keys, i + 1, failing, ub)

RECURSIVE syncEntities(_, _, _, _, _)
syncEntities(st, ids, i, failing, ub) ==
    IF i > Len(ids) THEN st
    ELSE syncEntities(
             syncSoundsIn(st, ids[i],
                          Ascending(DOMAIN st.components[ids[i]].m_sounds),
                          1, failing, ub),
             ids, i + 1, failing, ub)

update(st, failing, ub) ==
    LET st1 == removeSoundsForEntities(st, Ascending(removedEntities), 1, ub)
        st2 == restoreSoundsForEntities(st1, Ascending(addedEntities), 1,
                                        failing)
    IN  syncEntities(st2, Ascending(entities), 1, failing, ub)

\* createSound requests one operation can make at most
Restorable(ids, pending) ==
    UNION { {<<e, k>> : k \in {n \in DOMAIN components[e].m_sounds :
                                  pending => components[e].m_sounds[n].m_sound = 0}} :
            e \in {i \in ids : sceneNodes[i]} }

ActivateRequests == Cardinality(Restorable(entities, FALSE))

UpdateRequests ==
    Cardinality(Restorable(addedEntities, FALSE))
    + Cardinality(Restorable(entities, TRUE))

\* ------------------------------------------------- Sound, driven by scripts
AllProperties ==
    {"playState", "loop", "volume", "maxDistance", "rolloffFactor",
     "referenceDistance", "priority"}

PropertyValues(prop) ==
    CASE prop = "playState" -> PlayStates
      [] prop = "loop" -> BOOLEAN
      [] prop = "volume" -> VolumeValues
      [] prop = "maxDistance" -> MaxDistanceValues
      [] prop = "rolloffFactor" -> RolloffFactorValues
      [] prop = "referenceDistance" -> ReferenceDistanceValues
      [] prop = "priority" -> PriorityValues

scriptVars == <<soundCount, sceneNodes, entities,
                addedEntities, removedEntities, active, impl_m_sounds,
                natives, crashed>>

\* sound.properties.<prop> = value (def_readwrite, line 291-298); no touch()
SetProperty(e, key, prop, value) ==
    /\ ~crashed
    /\ key \in DOMAIN components[e].m_sounds
    /\ components[e].m_sounds[key].m_properties[prop] # value
    /\ components' = [components EXCEPT
          ![e].m_sounds[key].m_properties[prop] = value]
    /\ lastOp' = Op("setProperty", e, key, prop, 0)
    /\ calls' = <<>>
    /\ subject' = 0 /\ restored' = 0 /\ UNCHANGED organelle
    /\ UNCHANGED scriptVars

\* sound.properties:touch()
Touch(e, key) ==
    /\ ~crashed
    /\ key \in DOMAIN components[e].m_sounds
    /\ components' = [components EXCEPT ![e].m_sounds[key].m_hasChanges = TRUE]
    /\ lastOp' = Op("touch", 0, 0, 0, 0)
    /\ calls' = <<>>
    /\ subject' = 0 /\ restored' = 0 /\ UNCHANGED organelle
    /\ UNCHANGED <<scriptVars>>

SetPlayState(e, key, op, playState) ==
    /\ ~crashed
    /\ key \in DOMAIN components[e].m_sounds
    /\ components' = [components EXCEPT
          ![e].m_sounds[key].m_properties.playState = playState,
          ![e].m_sounds[key].m_hasChanges = TRUE]
    /\ lastOp' = Op(op, e, key, 0, 0)
    /\ calls' = <<>>
    /\ subject' = 0 /\ restored' = 0 /\ UNCHANGED organelle
    /\ UNCHANGED scriptVars

SoundPlay(e, key) == SetPlayState(e, key, "play", Play)

SoundPause(e, key) == SetPlayState(e, key, "pause", Pause)

SoundStop(e, key) == SetPlayState(e, key, "stop", Stop)

\* component.relativeToListener = value
SetRelativeToListener(e, value) ==
    /\ ~crashed
    /\ components[e].m_relativeToListener # value
    /\ components' = [components EXCEPT ![e].m_relativeToListener = value]
    /\ lastOp' = Op("setRelativeToListener", e, 0, B2I(value), 0)
    /\ calls' = <<>>
    /\ subject' = 0 /\ restored' = 0 /\ UNCHANGED organelle
    /\ UNCHANGED scriptVars

\* ------------------------------------------------ the entity filter's input
\* an entity gets both components: it enters m_entities and addedEntities
\* and is no longer listed as removed
AddEntity(e, node) ==
    /\ ~crashed
    /\ e \notin entities
    /\ entities' = entities \cup {e}
    /\ addedEntities' = addedEntities \cup {e}
    /\ removedEntities' = removedEntities \ {e}
    /\ components' = [components EXCEPT ![e] = NewComponent]
    /\ sceneNodes' = [sceneNodes EXCEPT ![e] = node]
    /\ lastOp' = Op("environment", 0, 0, 0, 0)
    /\ calls' = <<>>
    /\ subject' = 0 /\ restored' = 0 /\ UNCHANGED organelle
    /\ UNCHANGED <<soundCount, active, impl_m_sounds, natives, crashed>>

\* an entity loses a component: it leaves m_entities and addedEntities and
\* is listed as removed; its components die
RemoveEntity(e) ==
    /\ ~crashed
    /\ e \in entities
    /\ entities' = entities \ {e}
    /\ addedEntities' = addedEntities \ {e}
    /\ removedEntities' = removedEntities \cup {e}
    /\ components' = [components EXCEPT ![e] = NewComponent]
    /\ sceneNodes' = [sceneNodes EXCEPT ![e] = FALSE]
    /\ lastOp' = Op("environment", 0, 0, 0, 0)
    /\ calls' = <<>>
    /\ subject' = 0 /\ restored' = 0 /\ UNCHANGED organelle
    /\ UNCHANGED <<soundCount, active, impl_m_sounds,
                   natives, crashed>>

\* the scene node system creates the entity's Ogre::SceneNode
CreateSceneNode(e) ==
    /\ ~crashed
    /\ e \in entities
    /\ ~sceneNodes[e]
    /\ sceneNodes' = [sceneNodes EXCEPT ![e] = TRUE]
    /\ lastOp' = Op("environment", 0, 0, 0, 0)
    /\ calls' = <<>>
    /\ subject' = 0 /\ restored' = 0 /\ UNCHANGED organelle
    /\ UNCHANGED <<soundCount, components, entities,
                   addedEntities, removedEntities, active, impl_m_sounds,
                   natives, crashed>>

\* -------------------------------------------------------- SoundSourceSystem
\* lastOp.ret records whether the activation directly follows deactivate()
Activate(failing) ==
    LET st == restoreAllSounds(Start, failing)
    IN  /\ ~crashed
        /\ ~active
        /\ active' = TRUE
        /\ components' = st.components
        /\ impl_m_sounds' = st.impl_m_sounds
        /\ natives' = st.natives
        /\ calls' = <<Call("setSceneManager", 0, <<1>>, 0, 0)>> \o st.calls
        /\ crashed' = st.crashed
        /\ lastOp' = Op("activate", 0, 0, 0, B2I(lastOp.op = "deactivate"))
        /\ subject' = 0 /\ restored' = 0 /\ UNCHANGED organelle
        /\ UNCHANGED <<soundCount, sceneNodes, entities,
                       addedEntities, removedEntities>>

Deactivate(ub) ==
    LET st == removeAllSounds(Start, ub)
    IN  /\ ~crashed
        /\ active
        /\ active' = FALSE
        /\ components' = st.components
        /\ impl_m_sounds' = st.impl_m_sounds
        /\ natives' = st.natives
        /\ calls' = IF st.crashed THEN st.calls
                    ELSE Append(st.calls,
                                Call("setSceneManager", 0, <<0>>, 0, 0))
        /\ crashed' = st.crashed
        /\ lastOp' = Op("deactivate", 0, 0, 0, 0)
        /\ subject' = 0 /\ restored' = 0 /\ UNCHANGED organelle
        /\ UNCHANGED <<soundCount, sceneNodes, entities,
                       addedEntities, removedEntities>>

Update(failing, ub) ==
    LET st == update(Start, failing, ub)
    IN  /\ ~crashed
        /\ active
        /\ components' = st.components
        /\ impl_m_sounds' = st.impl_m_sounds
        /\ natives' = st.natives
        /\ calls' = st.calls
        /\ crashed' = st.crashed
        /\ addedEntities' = {}
        /\ removedEntities' = {}
        /\ lastOp' = Op("update", 0, 0, 0, 0)
        /\ subject' = 0 /\ restored' = 0 /\ UNCHANGED organelle
        /\ UNCHANGED <<soundCount, sceneNodes, entities,
                       active>>

UBOutcomes == {"crash", "proceed"}

Next ==
    \/ \E e \in Entities, node \in BOOLEAN : AddEntity(e, node)
    \/ \E e \in Entities : RemoveEntity(e)
    \/ \E e \in Entities : CreateSceneNode(e)
    \/ \E e \in entities, name \in Names, filename \in Files :
           \E hasChanges \in BOOLEAN : AddSound(e, name, filename, hasChanges)
    \/ \E e \in entities, name \in Names : RemoveSound(e, name)
    \/ \E e \in entities, key \in Names : Touch(e, key)
    \/ \E e \in entities, key \in Names : SoundPlay(e, key)
    \/ \E e \in entities, key \in Names : SoundPause(e, key)
    \/ \E e \in entities, key \in Names : SoundStop(e, key)
    \/ \E failing \in SUBSET (1..ActivateRequests) : Activate(failing)
    \/ \E ub \in UBOutcomes : Deactivate(ub)
    \/ \E failing \in SUBSET (1..UpdateRequests), ub \in UBOutcomes :
           Update(failing, ub)

Spec == Init /\ [][Next]_vars

\* one sound whose every property is written by scripts
PropertyEntities == {1}

PropertyNames == {1}

NextProperties ==
    \E e \in PropertyEntities, key \in PropertyNames :
        \/ \E node \in BOOLEAN : AddEntity(e, node)
        \/ CreateSceneNode(e)
        \/ \E filename \in Files, hasChanges \in BOOLEAN :
               e \in entities /\ AddSound(e, key, filename, hasChanges)
        \/ \E prop \in AllProperties : \E value \in PropertyValues(prop) :
               e \in entities /\ SetProperty(e, key, prop, value)
        \/ e \in entities /\ Touch(e, key)
        \/ \E failing \in SUBSET (1..ActivateRequests) : Activate(failing)
        \/ \E failing \in SUBSET (1..UpdateRequests), ub \in UBOutcomes :
               Update(failing, ub)

SpecProperties == Init /\ [][NextProperties]_vars

\* one entity whose relativeToListener is written by scripts
ListenerEntities == {1}

NextListener ==
    \E e \in ListenerEntities :
        \/ \E node \in BOOLEAN : AddEntity(e, node)
        \/ RemoveEntity(e)
        \/ CreateSceneNode(e)
        \/ \E name \in Names, filename \in Files, hasChanges \in BOOLEAN :
               e \in entities /\ AddSound(e, name, filename, hasChanges)
        \/ \E value \in BOOLEAN :
               e \in entities /\ SetRelativeToListener(e, value)
        \/ \E failing \in SUBSET (1..ActivateRequests) : Activate(failing)
        \/ \E ub \in UBOutcomes : Deactivate(ub)
        \/ \E failing \in SUBSET (1..UpdateRequests), ub \in UBOutcomes :
               Update(failing, ub)

SpecListener == Init /\ [][NextListener]_vars

\* a SoundSourceComponent on its own, driven by scripts and by loading
ComponentEntities == {1}

NextComponent ==
    \E e \in ComponentEntities :
        \/ \E name \in Names, filename \in Files, hasChanges \in BOOLEAN :
               AddSound(e, name, filename, hasChanges)
        \/ \E name \in Names : RemoveSound(e, name)
        \/ \E storage \in SavedComponents, hasChanges \in BOOLEAN :
               Load(e, storage, hasChanges)
        \/ \E hasChanges \in BOOLEAN : SaveLoad(e, hasChanges)

SpecComponent == Init /\ [][NextComponent]_vars

\* ------------------------------------------------------------------ claims
SameDescriptor(s, t) ==
    /\ s.m_name = t.m_name
    /\ s.m_filename = t.m_filename
    /\ s.m_properties = t.m_properties

Descriptors(c) ==
    { [m_name |-> c.m_sounds[k].m_name,
       m_filename |-> c.m_sounds[k].m_filename,
       m_properties |-> c.m_sounds[k].m_properties] : k \in DOMAIN c.m_sounds }

\* live native objects created for the sound `name` of entity e
LiveNatives(objects, e, name) ==
    { i \in DOMAIN objects :
        objects[i].alive /\ objects[i].node = e /\ objects[i].name = name }

HasLiveNative(e, key) ==
    /\ e \in entities
    /\ key \in DOMAIN components[e].m_sounds
    /\ components[e].m_sounds[key].m_sound # 0
    /\ natives[components[e].m_sounds[key].m_sound].alive

PlayOps == {"play", "pause", "stop"}

PlayStateOp(playState) ==
    CASE playState = Play -> "play"
      [] playState = Pause -> "pause"
      [] playState = Stop -> "stop"

SystemStep == {"activate", "update"}

\* C1: for a tracked entity whose sound `name` has a live native object,
\* removeSound(name) followed by update() leaves no live native object for
\* (entity, name).
C1_DestroyOnRemove ==
    [][ ( /\ lastOp.op = "removeSound"
          /\ lastOp.ret # 0
          /\ lastOp.entity \in entities
          /\ LiveNatives(natives, lastOp.entity, lastOp.name) # {}
          /\ lastOp'.op = "update" )
        => LiveNatives(natives', lastOp.entity, lastOp.name) = {} ]_vars

\* C2: a sound added by addSound under a name not present on a tracked entity
\* with a scene node has, after the next update() in which its native
\* creation succeeds, exactly one live native object; that object was created
\* with the sound's name, filename and loop flag, is attached to the entity's
\* scene node, and Sound::m_sound points to it.
C2_CreateOnAdd ==
    [][ \A e \in entities : \A k \in DOMAIN components[e].m_sounds :
          LET sound == components[e].m_sounds[k]
          IN  ( /\ lastOp'.op = "update"
                /\ sceneNodes[e]
                /\ \E i \in DOMAIN components[e].m_addedSounds :
                       components[e].m_addedSounds[i] = sound.id
                /\ sound.m_sound = 0
                /\ k \in DOMAIN components'[e].m_sounds
                /\ components'[e].m_sounds[k].m_sound # 0 )
              => LET ogreSound == components'[e].m_sounds[k].m_sound
                 IN  /\ LiveNatives(natives', e, sound.m_name) = {ogreSound}
                     /\ natives'[ogreSound].filename = sound.m_filename
                     /\ natives'[ogreSound].loop = sound.m_properties.loop
        ]_vars

NativeCallFor(prop, properties) ==
    CASE prop = "playState" ->
             [op |-> PlayStateOp(properties.playState), arg |-> <<>>]
      [] prop = "loop" -> [op |-> "loop", arg |-> <<B2I(properties.loop)>>]
      [] prop = "volume" ->
             [op |-> "setVolume", arg |-> <<properties.volume>>]
      [] prop = "maxDistance" ->
             [op |-> "setMaxDistance", arg |-> <<properties.maxDistance>>]
      [] prop = "rolloffFactor" ->
             [op |-> "setRolloffFactor", arg |-> <<properties.rolloffFactor>>]
      [] prop = "referenceDistance" ->
             [op |-> "setReferenceDistance",
              arg |-> <<properties.referenceDistance>>]
      [] prop = "priority" ->
             [op |-> "setPriority", arg |-> <<properties.priority>>]

\* C3: for a sound of a tracked entity with a live native object, after any
\* property (playState, loop, volume, maxDistance, rolloffFactor,
\* referenceDistance, priority) is changed and the properties are marked
\* changed, the next update() issues the native call carrying the new value
\* (for loop, the loop() call or a createSound() call with the new flag).
C3_PropertyChangeIsPushed ==
    [][ ( /\ lastOp.op = "setProperty"
          /\ HasLiveNative(lastOp.entity, lastOp.name)
          /\ components[lastOp.entity].m_sounds[lastOp.name].m_hasChanges
          /\ lastOp'.op = "update" )
        => LET sound == components[lastOp.entity].m_sounds[lastOp.name]
               expected == NativeCallFor(lastOp.arg, sound.m_properties)
           IN  \E i \in DOMAIN calls' :
                   /\ \/ /\ calls'[i].op = expected.op
                         /\ calls'[i].arg = expected.arg
                      \/ /\ lastOp.arg = "loop"
                         /\ calls'[i].op = "createSound"
                         /\ calls'[i].arg[3] = B2I(sound.m_properties.loop)
                   /\ calls'[i].obj =
                        components'[lastOp.entity].m_sounds[lastOp.name]
                            .m_sound ]_vars

\* C4: play(), pause() and stop() set playState and mark the properties
\* changed, and the next update() on a tracked entity whose sound has a live
\* native object invokes exactly the one native play/pause/stop that matches
\* the last such call.
C4_PlayStateTakesEffect ==
    /\ [](lastOp.op \in PlayOps =>
            LET sound == components[lastOp.entity].m_sounds[lastOp.name]
            IN  /\ PlayStateOp(sound.m_properties.playState) = lastOp.op
                /\ sound.m_hasChanges)
    /\ [][ ( /\ lastOp.op \in PlayOps
             /\ HasLiveNative(lastOp.entity, lastOp.name)
             /\ lastOp'.op = "update" )
           => LET sound == components[lastOp.entity].m_sounds[lastOp.name]
                  issued == { i \in DOMAIN calls' :
                                /\ calls'[i].op \in PlayOps
                                /\ calls'[i].entity = lastOp.entity
                                /\ calls'[i].name = sound.m_name }
              IN  /\ Cardinality(issued) = 1
                  /\ \A i \in issued :
                        /\ calls'[i].op = lastOp.op
                        /\ calls'[i].obj =
                             components'[lastOp.entity].m_sounds[lastOp.name]
                                 .m_sound ]_vars

\* C5: after any sequence of addSound, removeSound and load a component
\* holds at most one Sound per name, and each Sound is stored under the key
\* equal to its own name().
C5_NameUniquePerEntity ==
    \A e \in Entities :
        LET m == components[e].m_sounds
        IN  /\ \A k \in DOMAIN m : m[k].m_name = k
            /\ \A k1, k2 \in DOMAIN m :
                   m[k1].m_name = m[k2].m_name => k1 = k2

C5_Witness ==
    /\ lastOp.op = "load"
    /\ Cardinality(DOMAIN components[1].m_sounds) = 2
    /\ Len(components[1].m_addedSounds) = 1

\* C6: addSound(name, filename) returns a Sound that is alive, owned by the
\* component, stored under `name`, and has the given name and filename, also
\* when `name` is already present on the component.
C6_AddSoundReturnsNewSound ==
    lastOp.op = "addSound" =>
        LET m == components[lastOp.entity].m_sounds
        IN  /\ SoundAlive(lastOp.ret)
            /\ lastOp.name \in DOMAIN m
            /\ m[lastOp.name].id = lastOp.ret
            /\ m[lastOp.name].m_name = lastOp.name
            /\ m[lastOp.name].m_filename = lastOp.arg

\* C7: a fresh component that loads c.storage() has the same
\* relativeToListener value and the same set of sounds as c.
C7_ComponentRoundTrip ==
    lastOp.op = "saveLoad" =>
        /\ restored.m_relativeToListener = subject.m_relativeToListener
        /\ Descriptors(restored) = Descriptors(subject)

\* C8: a default-constructed Sound that loads s.storage() has the same name,
\* filename, playState, loop, volume, maxDistance, rolloffFactor,
\* referenceDistance and priority as s.
C8_SoundRoundTrip ==
    lastOp.op = "soundSaveLoad" => SameDescriptor(restored, subject)

C8_Witness ==
    /\ lastOp.op = "soundSaveLoad"
    /\ subject.m_name # EmptyString
    /\ subject.m_properties.playState = Play
    /\ subject.m_properties.loop
    /\ subject.m_properties.volume # DefaultVolume
    /\ subject.m_properties.maxDistance # DefaultMaxDistance
    /\ subject.m_properties.rolloffFactor # DefaultRolloffFactor
    /\ subject.m_properties.referenceDistance # DefaultReferenceDistance
    /\ subject.m_properties.priority # DefaultPriority
    /\ restored.m_properties.playState = Play

\* the native recorded under `name`, 0 when there is none
MapEntry(map, name) == IF name \in DOMAIN map THEN map[name] ELSE 0

\* C9: for a tracked entity without scene node, activate() and update()
\* create no native sound, leave Sound::m_sound and the system's map
\* unchanged for it, and perform no operation on a non-existent native
\* sound, whatever the changed-flag of its sounds.
C9_MissingSceneNodeGuarded ==
    [][ \A e \in entities :
          (lastOp'.op \in SystemStep /\ ~sceneNodes[e])
          => /\ \A i \in DOMAIN calls' :
                   calls'[i].entity = e
                   => calls'[i].op # "createSound" /\ calls'[i].obj # 0
             /\ impl_m_sounds'[e] = impl_m_sounds[e]
             /\ \A k \in DOMAIN components[e].m_sounds :
                   components'[e].m_sounds[k].m_sound
                       = components[e].m_sounds[k].m_sound
             /\ ~(crashed' /\ calls'[Len(calls')].entity = e) ]_vars

\* C10: when the audio manager returns no object for a sound without native
\* object during
\* activate() or update(), Sound::m_sound and the system map stay unchanged
\* for that sound, no native operation is performed on it in that operation,
\* and the operation completes normally.
C10_FailedCreationIgnored ==
    [][ \A e \in entities : \A k \in DOMAIN components[e].m_sounds :
          LET name == components[e].m_sounds[k].m_name
              requests == { i \in DOMAIN calls' :
                              /\ calls'[i].op = "createSound"
                              /\ calls'[i].entity = e
                              /\ calls'[i].name = name }
          IN  ( /\ lastOp'.op \in SystemStep
                /\ components[e].m_sounds[k].m_sound = 0
                /\ requests # {}
                /\ \A i \in requests : calls'[i].obj = 0 )
              => /\ components'[e].m_sounds[k].m_sound
                       = components[e].m_sounds[k].m_sound
                 /\ MapEntry(impl_m_sounds'[e], name)
                       = MapEntry(impl_m_sounds[e], name)
                 /\ \A i \in DOMAIN calls' :
                       (calls'[i].entity = e /\ calls'[i].name = name)
                       => calls'[i].op = "createSound"
                 /\ ~crashed' ]_vars

\* ------------------------------------------------- StorageOrganelle claims
\* compounds[compoundId], a compound never stored counting as 0
CompoundAmount(o, compoundId) ==
    IF compoundId \in DOMAIN o.compounds THEN o.compounds[compoundId]
    ELSE Num(0)

\* C11: storeCompound(compoundId, amount) with a non-negative amount adds
\* min(amount, bandwidth, (capacity - stored) / size(compoundId)) to
\* compounds[compoundId], returns amount minus the quantity added, and
\* stored grows by size(compoundId) times the quantity added.
C11_StoreCompound ==
    [][lastOp'.op = "storeCompound" =>
        LET compoundId == lastOp'.name
            amount == lastOp'.arg
            size == getCompoundSize(compoundId)
            room == RatDiv(RatSub(organelle.capacity, organelle.stored), size)
            expected ==
                IF RatLess(amount, organelle.bandwidth)
                THEN (IF RatLess(amount, room) THEN amount ELSE room)
                ELSE (IF RatLess(organelle.bandwidth, room)
                      THEN organelle.bandwidth ELSE room)
            added == RatSub(CompoundAmount(organelle', compoundId),
                            CompoundAmount(organelle, compoundId))
        IN  /\ added = expected
            /\ RatAdd(added, lastOp'.ret) = amount
            /\ organelle'.stored =
                  RatAdd(organelle.stored, RatMul(size, added))
            /\ \A other \in CompoundIds \ {compoundId} :
                  CompoundAmount(organelle', other) =
                  CompoundAmount(organelle, other)]_vars

\* a call limited by the remaining room of a compound of size 2
C11_Witness ==
    /\ lastOp.op = "storeCompound"
    /\ lastOp.name = 2
    /\ RatLess(Num(0), lastOp.ret)
    /\ RatLess(lastOp.ret, lastOp.arg)
    /\ organelle.stored = organelle.capacity
    /\ RatLess(lastOp.arg, organelle.bandwidth) \/ lastOp.arg = organelle.bandwidth

\* C12: ejectCompound(compoundId, amount) with a non-negative amount returns
\* min(amount, compounds[compoundId], bandwidth), compounds[compoundId]
\* decreases by exactly that and never becomes negative, and for a compound
\* never stored the result is 0 and the organelle is unchanged.
C12_EjectCompound ==
    [][lastOp'.op = "ejectCompound" =>
        LET compoundId == lastOp'.name
            amount == lastOp'.arg
        IN  IF compoundId \in DOMAIN organelle.compounds
            THEN LET had == organelle.compounds[compoundId]
                     least == CHOOSE x \in {amount, had, organelle.bandwidth} :
                                \A y \in {amount, had, organelle.bandwidth} :
                                    ~RatLess(y, x)
                 IN  /\ lastOp'.ret = least
                     /\ organelle'.compounds[compoundId] =
                            RatSub(had, lastOp'.ret)
                     /\ ~RatLess(organelle'.compounds[compoundId], Num(0))
            ELSE /\ lastOp'.ret = Num(0)
                 /\ [organelle' EXCEPT !.operations = 0] =
                    [organelle EXCEPT !.operations = 0]]_vars

\* a call that ejects part of what was asked for, all that was stored
C12_Witness ==
    /\ lastOp.op = "ejectCompound"
    /\ RatLess(Num(0), lastOp.ret)
    /\ RatLess(lastOp.ret, lastOp.arg)
    /\ RatLess(lastOp.ret, organelle.bandwidth)
    /\ CompoundAmount(organelle, lastOp.name) = Num(0)

\* ------------------------------------------------------ system behaviour
\* the native calls of the property sync of update()
SyncOps ==
    {"setVolume", "setMaxDistance", "setRolloffFactor",
     "setReferenceDistance", "setPriority", "play", "pause", "stop"}

\* C13: update() issues native property/playback calls for a sound only if
\* its properties were marked changed at the start of the update; after an
\* update() that returns, no sound of a tracked entity with a live native
\* object is marked changed; and an update() that directly follows an
\* update() issues no native property or play/pause/stop call.
C13_DirtyFlagSync ==
    [][ lastOp'.op = "update" =>
          /\ \A i \in DOMAIN calls' :
                calls'[i].op \in SyncOps
                => /\ calls'[i].entity \in entities
                   /\ \E k \in DOMAIN components[calls'[i].entity].m_sounds :
                        LET sound == components[calls'[i].entity].m_sounds[k]
                        IN  sound.m_name = calls'[i].name /\ sound.m_hasChanges
          /\ ~crashed' =>
                \A e \in entities' : \A k \in DOMAIN components'[e].m_sounds :
                    LET sound == components'[e].m_sounds[k]
                    IN  (sound.m_sound # 0 /\ natives'[sound.m_sound].alive)
                        => ~sound.m_hasChanges
          /\ lastOp.op = "update" =>
                \A i \in DOMAIN calls' : calls'[i].op \notin SyncOps ]_vars

\* an update() has pushed the properties of a sound with a live native
\* object and has cleared its changed mark
C13_Witness ==
    /\ lastOp.op = "update"
    /\ ~crashed
    /\ \E e \in entities : \E k \in DOMAIN components[e].m_sounds :
          /\ HasLiveNative(e, k)
          /\ ~components[e].m_sounds[k].m_hasChanges
          /\ \E i \in DOMAIN calls :
                /\ calls[i].op = "setVolume"
                /\ calls[i].obj = components[e].m_sounds[k].m_sound

\* indices of the calls `op` issued on the native object `obj`
CallsOn(log, op, obj) ==
    { i \in DOMAIN log : log[i].op = op /\ log[i].obj = obj }

\* live native objects attached to the scene node of entity e
NativesOf(objects, e) ==
    { i \in DOMAIN objects : objects[i].alive /\ objects[i].node = e }

\* C14: when an entity has left the filter, the next update() detaches and
\* destroys every live native object created for that entity, each exactly
\* once, touches no object that is already destroyed, and issues these
\* calls before any createSound of the same update().
C14_EntityRemoval ==
    [][ lastOp'.op = "update" =>
          /\ \A e \in removedEntities : \A o \in NativesOf(natives, e) :
                /\ ~natives'[o].alive
                /\ Cardinality(CallsOn(calls', "detachObject", o)) = 1
                /\ Cardinality(CallsOn(calls', "destroySound", o)) = 1
          /\ \A i \in DOMAIN calls' :
                calls'[i].op \in {"detachObject", "destroySound"}
                => /\ calls'[i].obj \in DOMAIN natives
                   /\ natives[calls'[i].obj].alive
                   /\ \A j \in DOMAIN calls' :
                         calls'[j].op = "createSound" => i < j ]_vars

\* C15: deactivate() returns having detached and destroyed, exactly once
\* each, every live native object created for a tracked entity; it touches
\* no object that is already destroyed, leaves the system's sound map empty
\* and unsets the scene manager only after the destructions.
C15_DeactivateRemovesAll ==
    [][ lastOp'.op = "deactivate" =>
          /\ ~crashed'
          /\ \A e \in entities : \A o \in NativesOf(natives, e) :
                /\ ~natives'[o].alive
                /\ Cardinality(CallsOn(calls', "detachObject", o)) = 1
                /\ Cardinality(CallsOn(calls', "destroySound", o)) = 1
          /\ \A i \in DOMAIN calls' :
                calls'[i].op \in {"detachObject", "destroySound"}
                => /\ calls'[i].obj \in DOMAIN natives
                   /\ natives[calls'[i].obj].alive
                   /\ \E j \in DOMAIN calls' :
                         calls'[j].op = "setSceneManager" /\ i < j
          /\ \A e \in Entities : impl_m_sounds'[e] = EmptyMap ]_vars

\* the values last applied to the native object `obj` by the calls of `log`:
\* the last call of each kind, 0 when there is none
LastCall(log, ops, obj) ==
    LET S == { i \in DOMAIN log : log[i].op \in ops /\ log[i].obj = obj }
    IN  IF S = {} THEN 0 ELSE CHOOSE i \in S : \A j \in S : j <= i

\* the native object `obj` was created by a call of `log`
CreatedIn(log, obj) == CallsOn(log, "createSound", obj) # {}

\* C16: after deactivate(), activate() and one update() in which every
\* native creation succeeds, every sound of every tracked entity with a
\* scene node has a live native object, and a sound whose playState is Play
\* or Pause has had the matching call applied to its new native object.
C16_MirrorAcrossReactivation ==
    [][ ( /\ lastOp.op = "activate"
          /\ lastOp.ret = 1
          /\ lastOp'.op = "update"
          /\ ~crashed'
          /\ CallsOn(calls, "createSound", 0) = {}
          /\ CallsOn(calls', "createSound", 0) = {} )
        => \A e \in entities : \A k \in DOMAIN components'[e].m_sounds :
              LET sound == components'[e].m_sounds[k]
                  ogreSound == sound.m_sound
                  last == LastCall(calls', PlayOps, ogreSound)
              IN  sceneNodes[e] =>
                  /\ ogreSound # 0
                  /\ natives'[ogreSound].alive
                  /\ ( /\ CreatedIn(calls, ogreSound)
                          \/ CreatedIn(calls', ogreSound)
                       /\ sound.m_properties.playState \in {Play, Pause} )
                     => /\ last # 0
                        /\ calls'[last].op =
                               PlayStateOp(sound.m_properties.playState)
      ]_vars

\* the sound k of entity e has no live native object
NoLiveNative(e, k) ==
    LET ogreSound == components[e].m_sounds[k].m_sound
    IN  ogreSound = 0 \/ ~natives[ogreSound].alive

\* C17: for a sound of a tracked entity that has no live native object
\* while the entity's scene node exists, every update() requests the
\* creation of its native object, and when the request succeeds the sound
\* has a live native object with Sound::m_sound set to it.
C17_LazyRetry ==
    [][ lastOp'.op = "update" =>
          \A e \in entities : \A k \in DOMAIN components[e].m_sounds :
              (sceneNodes[e] /\ NoLiveNative(e, k))
              => LET name == components[e].m_sounds[k].m_name
                     requests == { i \in DOMAIN calls' :
                                     /\ calls'[i].op = "createSound"
                                     /\ calls'[i].entity = e
                                     /\ calls'[i].name = name }
                 IN  /\ requests # {}
                     /\ \A i \in requests :
                           calls'[i].obj # 0
                           => LET ogreSound ==
                                      components'[e].m_sounds[k].m_sound
                              IN  /\ ogreSound # 0
                                  /\ natives'[ogreSound].alive ]_vars

\* C18: after relativeToListener is set to a new value on a tracked entity
\* with a live native sound object, the next update() that returns issues a
\* native call on that object which applies the value.
C18_RelativeToListenerApplied ==
    [][ ( /\ lastOp.op = "setRelativeToListener"
          /\ lastOp'.op = "update"
          /\ ~crashed' )
        => \A o \in NativesOf(natives', lastOp.entity) :
              \E i \in DOMAIN calls' :
                 /\ calls'[i].obj = o
                 /\ calls'[i].op \notin
                        SyncOps \cup {"createSound", "attachObject",
                                      "detachObject", "destroySound"} ]_vars

\* C19: no operation detaches, destroys or invokes a call on a native sound
\* object that was destroyed before the operation or earlier in it.
C19_NoUseAfterDestroy ==
    [][ \A i \in DOMAIN calls' :
          LET o == calls'[i].obj
          IN  (o # 0 /\ calls'[i].op # "createSound")
              => /\ o \in DOMAIN natives => natives[o].alive
                 /\ \A j \in DOMAIN calls' :
                       (j < i /\ calls'[j].obj = o)
                       => calls'[j].op # "destroySound" ]_vars

\* C20: between operations every pointer in the system's map and every
\* non-null Sound::m_sound denotes a live native object, and for every sound
\* of a tracked entity the map has an entry for (entity, name) exactly when
\* Sound::m_sound is non-null, and then both are the same object.
C20_NativeReferencesConsistent ==
    ~crashed =>
    /\ \A e \in Entities : \A name \in DOMAIN impl_m_sounds[e] :
          LET o == impl_m_sounds[e][name]
          IN  o # 0 /\ natives[o].alive
    /\ \A e \in Entities : \A k \in DOMAIN components[e].m_sounds :
          LET o == components[e].m_sounds[k].m_sound
          IN  o # 0 => natives[o].alive
    /\ \A e \in entities : \A k \in DOMAIN components[e].m_sounds :
          LET sound == components[e].m_sounds[k]
          IN  /\ sound.m_name \in DOMAIN impl_m_sounds[e] <=> sound.m_sound # 0
              /\ sound.m_sound # 0
                 => impl_m_sounds[e][sound.m_name] = sound.m_sound

\* C21: no operation requests the creation of a native sound for an
\* (entity, sound) that has a live native object, be it one that existed
\* before the operation or one created earlier in it.
C21_NoDuplicateCreation ==
    [][ \A i \in DOMAIN calls' :
          calls'[i].op = "createSound"
          => LET e == calls'[i].entity
                 name == calls'[i].name
             IN  /\ \A k \in DOMAIN components[e].m_sounds :
                       components[e].m_sounds[k].m_name = name
                       => NoLiveNative(e, k)
                 /\ \A j \in DOMAIN calls' :
                       ( /\ j < i
                         /\ calls'[j].op = "createSound"
                         /\ calls'[j].entity = e
                         /\ calls'[j].name = name )
                       => calls'[j].obj = 0 ]_vars

\* the space occupied: the sum over the first n compounds of
\* compounds[id] * size(id)
RECURSIVE Occupied(_, _)
Occupied(o, n) ==
    IF n = 0 THEN Num(0)
    ELSE RatAdd(Occupied(o, n - 1),
                RatMul(CompoundAmount(o, n), getCompoundSize(n)))

\* C22: for an organelle with bandwidth >= 0 and capacity >= 0, after any
\* sequence of storeCompound and ejectCompound calls with non-negative
\* amounts and positive compound sizes, `stored` equals the sum over all
\* compounds of compounds[id] * size(id).
C22_StoredIsOccupied ==
    ( /\ ~RatLess(organelle.capacity, Num(0))
      /\ ~RatLess(organelle.bandwidth, Num(0)) )
    => organelle.stored = Occupied(organelle, MaxCompounds)

\* C23: for an organelle that starts empty with capacity >= 0 (and a
\* bandwidth >= 0), after any sequence of storeCompound and ejectCompound
\* calls with non-negative amounts and positive compound sizes,
\* 0 <= stored <= capacity and the space occupied does not exceed capacity.
C23_CapacityBound ==
    ( /\ ~RatLess(organelle.capacity, Num(0))
      /\ ~RatLess(organelle.bandwidth, Num(0)) )
    => /\ ~RatLess(organelle.stored, Num(0))
       /\ ~RatLess(organelle.capacity, organelle.stored)
       /\ ~RatLess(organelle.capacity, Occupied(organelle, MaxCompounds))

====
